---- MODULE Spec2Model ----
(***************************************************************************)
(* State-machine model of the work engine in src/src/work.rs.              *)
(*                                                                         *)
(* The engine is driven by one control thread.  The thread is either       *)
(* outside run (pc = "idle"), where it may call add, stop or run, or at    *)
(* one of the positions of run's loop body.  Every step of the three loops *)
(* of one iteration (dispatch, poll, sweep) is one action, so the states   *)
(* between two steps of a pass are states of the model.                    *)
(*                                                                         *)
(* The Work trait object of an item is the environment: the result of each *)
(* execute() and status() call is chosen freely when the call is made.     *)
(* name and description of a WorkItem are never read by the engine and are *)
(* left out of the item records.                                           *)
(***************************************************************************)
EXTENDS Integers, Sequences, FiniteSets, TLC

\* Largest number of add calls explored.
MaxItems == 3

WorkError == {"NotImplemented", "Unknown", "Unrecoverable", "Recoverable"}

WorkStatus == {"NotStarted", "InProgress", "Complete"}

\* Values of Result<(), WorkError>.
Ok == <<"Ok">>
Err(e) == <<"Err", e>>
Results == {Ok} \cup {Err(e) : e \in WorkError}
IsOk(r) == r = Ok

\* Values of WorkItemStatus.
NotStarted == <<"NotStarted">>
InProgress == <<"InProgress">>
Complete == <<"Complete">>
ErrorStatus(e) == <<"Error", e>>
WorkItemStatus == {NotStarted, InProgress, Complete} \cup {ErrorStatus(e) : e \in WorkError}

\* The item built by add: status NotStarted and the id handed in.
WorkItem(id) == [id |-> id, status |-> NotStarted]

\* No run result yet.
None == <<"None">>

\* The history variables hold this before a snapshot is taken.
NoSnapshot == [taken |-> FALSE, active |-> <<>>, completed |-> <<>>]

VARIABLES
    work_items,            \* WorkEngine.work_items, a sequence of items
    completed_work_items,  \* WorkEngine.completed_work_items
    work_item_counter,     \* WorkEngine.work_item_counter
    stop,                  \* WorkEngine.stop
    pc,                    \* position of the control thread
    i,                     \* index of the pass in progress (0-based, as in the code)
    n,                     \* upper end of the sweep's range 0..len, fixed when the sweep starts
    ret,                   \* the local `ret` of run: result of the pass in progress
    run_result,            \* what the last run call returned (None while running / before any run)
    addRets,               \* history: the ids returned by the add calls so far, in call order
    execLog,               \* history: execute calls of the current iteration, <<id, result>>
    pollLog,               \* history: status calls of the current iteration, <<id, reported status>>
    iterStart,             \* history: both collections when the current iteration began
    sweepStart,            \* history: both collections when the current sweep began
    sweepLog,              \* history: ids of the items the current sweep has examined, in order
    okLog,                 \* history: ids whose execute returned Ok, over all runs, in call order
    failedIds              \* history: ids whose execute has returned Err in some run

vars == <<work_items, completed_work_items, work_item_counter, stop, pc, i, n, ret,
          run_result, addRets, execLog, pollLog, iterStart, sweepStart, sweepLog,
          okLog, failedIds>>

engine == <<work_items, completed_work_items, work_item_counter, stop>>
history == <<addRets, execLog, pollLog, iterStart, sweepStart, sweepLog, okLog, failedIds>>

Snapshot == [taken |-> TRUE, active |-> work_items, completed |-> completed_work_items]

\* Variant: the element is copied out and not removed.
Remove_None(s, k) == s

\* Vec::remove(i) with a 0-based index that is in range.
Remove(s, k) == SubSeq(s, 1, k) \o SubSeq(s, k + 2, Len(s))

\* The element work_items[k] for a 0-based index.
At(s, k) == s[k + 1]

SetStatus(s, k, st) == [s EXCEPT ![k + 1].status = st]

\* WorkEngine::new
Init ==
    /\ work_items = <<>>
    /\ completed_work_items = <<>>
    /\ work_item_counter = 0
    /\ stop = FALSE
    /\ pc = "idle"
    /\ i = 0
    /\ n = 0
    /\ ret = Ok
    /\ run_result = None
    /\ addRets = <<>>
    /\ execLog = <<>>
    /\ pollLog = <<>>
    /\ iterStart = NoSnapshot
    /\ sweepStart = NoSnapshot
    /\ sweepLog = <<>>
    /\ okLog = <<>>
    /\ failedIds = {}

\* Variant: the item is put in front.
add_work_item_Front(items, work_item) == <<work_item>> \o items

\* add_work_item: push at the end of the active collection.
add_work_item(items, work_item) == Append(items, work_item)

\* Variant: the incremented counter is returned as it is.
AddReturn_NoDecrement(counter) == counter

\* The value add returns, from the counter after the increment.
AddReturn(counter) == counter - 1

\* WorkEngine::add
Add ==
    /\ pc = "idle"
    /\ work_item_counter < MaxItems
    /\ work_items' = add_work_item(work_items, WorkItem(work_item_counter))
    /\ work_item_counter' = work_item_counter + 1
    /\ addRets' = Append(addRets, AddReturn(work_item_counter'))
    /\ UNCHANGED <<completed_work_items, stop, pc, i, n, ret, run_result,
                   execLog, pollLog, iterStart, sweepStart, sweepLog, okLog, failedIds>>

\* WorkEngine::stop
Stop ==
    /\ pc = "idle"
    /\ stop' = TRUE
    /\ UNCHANGED <<work_items, completed_work_items, work_item_counter, pc, i, n, ret,
                   run_result, history>>

\* Variant: entering run clears the flag.
RunCall_ResetStop ==
    /\ pc = "idle"
    /\ pc' = "top"
    /\ stop' = FALSE
    /\ run_result' = None
    /\ execLog' = <<>>
    /\ pollLog' = <<>>
    /\ iterStart' = NoSnapshot
    /\ sweepStart' = NoSnapshot
    /\ sweepLog' = <<>>
    /\ UNCHANGED <<work_items, completed_work_items, work_item_counter, i, n, ret,
                   addRets, okLog, failedIds>>

\* The caller enters run.
RunCall ==
    /\ pc = "idle"
    /\ pc' = "top"
    /\ run_result' = None
    /\ execLog' = <<>>
    /\ pollLog' = <<>>
    /\ iterStart' = NoSnapshot
    /\ sweepStart' = NoSnapshot
    /\ sweepLog' = <<>>
    /\ UNCHANGED <<engine, i, n, ret, addRets, okLog, failedIds>>

\* Variant: the flag is read the wrong way round.
LoopCondition_Inverted(s) == s

\* Variant: the loop does not look at the flag.
LoopCondition_Always(s) == TRUE

\* The loop condition `while !self.stop`.
LoopCondition(s) == ~s

\* Top of the loop: leave with Ok(()) or begin the dispatch pass.
LoopTop ==
    /\ pc = "top"
    /\ IF LoopCondition(stop)
       THEN /\ pc' = "dispatch"
            /\ i' = 0
            /\ ret' = Ok
            /\ execLog' = <<>>
            /\ pollLog' = <<>>
            /\ iterStart' = Snapshot
            /\ sweepStart' = NoSnapshot
            /\ sweepLog' = <<>>
            /\ UNCHANGED <<engine, n, run_result, addRets, okLog, failedIds>>
       ELSE /\ pc' = "idle"
            /\ run_result' = Ok
            /\ UNCHANGED <<engine, i, n, ret, history>>

\* Variant: every item that is not Complete is dispatched.
DispatchFilter_NotComplete(item) == item.status # Complete

\* Filter of the dispatch pass: only items that have not started.
DispatchFilter(item) == item.status = NotStarted

\* Variant: the closure hands on the error execute returned.
DispatchError_Preserve(r) == r

\* What the dispatch closure returns when execute returned the error r.
DispatchError(r) == Err("Unknown")

\* Variant: a failed execute marks the item with the error.
ExecStatus_Error(old, r) == IF IsOk(r) THEN InProgress ELSE ErrorStatus(r[2])

\* Variant: the status is set before the result of execute is looked at.
ExecStatus_Always(old, r) == InProgress

\* The status of an item after execute returned r: InProgress on Ok, left
\* as it was on an error.
ExecStatus(old, r) == IF IsOk(r) THEN InProgress ELSE old

\* One step of the dispatch pass (iter_mut().filter(..).try_for_each(..)):
\* the item at index i is skipped, or executed once; a failed execute ends
\* the pass with i left at the failing item.
DispatchStep ==
    /\ pc = "dispatch"
    /\ IsOk(ret)
    /\ i < Len(work_items)
    /\ IF DispatchFilter(At(work_items, i))
       THEN \E r \in Results :
               /\ execLog' = Append(execLog, <<At(work_items, i).id, r>>)
               /\ work_items' = SetStatus(work_items, i,
                                          ExecStatus(At(work_items, i).status, r))
               /\ ret' = IF IsOk(r) THEN Ok ELSE DispatchError(r)
               /\ i' = IF IsOk(r) THEN i + 1 ELSE i
               /\ okLog' = IF IsOk(r) THEN Append(okLog, At(work_items, i).id) ELSE okLog
               /\ failedIds' = IF IsOk(r) THEN failedIds
                                ELSE failedIds \cup {At(work_items, i).id}
       ELSE /\ i' = i + 1
            /\ UNCHANGED <<work_items, ret, execLog, okLog, failedIds>>
    /\ UNCHANGED <<completed_work_items, work_item_counter, stop, pc, n, run_result,
                   addRets, pollLog, iterStart, sweepStart, sweepLog>>

\* `if !ret.is_ok() { return ret; }` after the dispatch pass.
DispatchCheck ==
    /\ pc = "dispatch"
    /\ (i = Len(work_items) \/ ~IsOk(ret))
    /\ IF ~IsOk(ret)
       THEN /\ pc' = "idle"
            /\ run_result' = ret
            /\ i' = i
       ELSE /\ pc' = "poll"
            /\ i' = 0
            /\ UNCHANGED run_result
    /\ UNCHANGED <<engine, n, ret, history>>

\* Filter of the poll pass: only items in progress.
PollFilter(item) == item.status = InProgress

\* Variant: the reported status is copied whatever it is.
PollStatus_Copy(old, w) == <<w>>

\* The status an item gets when its work reports w: Complete is copied,
\* anything else leaves the status as it is.
PollStatus(old, w) == IF w = "Complete" THEN Complete ELSE old

\* One step of the poll pass: the item at index i is skipped, or asked for
\* its status once.  The closure always returns Ok(()).
PollStep ==
    /\ pc = "poll"
    /\ i < Len(work_items)
    /\ IF PollFilter(At(work_items, i))
       THEN \E w \in WorkStatus :
               /\ pollLog' = Append(pollLog, <<At(work_items, i).id, w>>)
               /\ work_items' = SetStatus(work_items, i,
                                          PollStatus(At(work_items, i).status, w))
               /\ ret' = Ok
       ELSE UNCHANGED <<work_items, ret, pollLog>>
    /\ i' = i + 1
    /\ UNCHANGED <<completed_work_items, work_item_counter, stop, pc, n, run_result,
                   addRets, execLog, iterStart, sweepStart, sweepLog, okLog, failedIds>>

\* The range end of the sweep's `for i in 0..self.work_items.len()`,
\* evaluated once, before the first step.
SweepRange(items) == Len(items)

\* `if !ret.is_ok() { return ret; }` after the poll pass, then the call of
\* move_completed_work_items.
PollCheck ==
    /\ pc = "poll"
    /\ i = Len(work_items)
    /\ IF ~IsOk(ret)
       THEN /\ pc' = "idle"
            /\ run_result' = ret
            /\ UNCHANGED <<i, n, sweepStart, sweepLog>>
       ELSE /\ pc' = "sweep"
            /\ i' = 0
            /\ n' = SweepRange(work_items)
            /\ sweepStart' = Snapshot
            /\ sweepLog' = <<>>
            /\ UNCHANGED run_result
    /\ UNCHANGED <<engine, ret, addRets, execLog, pollLog, iterStart, okLog, failedIds>>

\* Variant: the sweep compares with the wrong status.
SweepMoves_InProgress(item) == item.status = InProgress

\* The sweep moves an item when its status is Complete.
SweepMoves(item) == item.status = Complete

\* Indexing self.work_items[k] succeeds only below the current length.
InBounds(items, k) == k < Len(items)

\* Variant: the archived item is put in front.
push_completed_Front(items, work_item) == <<work_item>> \o items

\* self.completed_work_items.push(work_item)
push_completed(items, work_item) == Append(items, work_item)

\* One step of move_completed_work_items for index i of the fixed range:
\* indexing beyond the current length panics, a Complete item is removed
\* from the active collection and pushed onto the completed one.
SweepStep ==
    /\ pc = "sweep"
    /\ i < n
    /\ IF ~InBounds(work_items, i)
       THEN /\ pc' = "panicked"
            /\ UNCHANGED <<work_items, completed_work_items, i, sweepLog>>
       ELSE /\ IF SweepMoves(At(work_items, i))
               THEN /\ work_items' = Remove(work_items, i)
                    /\ completed_work_items' =
                           push_completed(completed_work_items, At(work_items, i))
               ELSE UNCHANGED <<work_items, completed_work_items>>
            /\ sweepLog' = Append(sweepLog, At(work_items, i).id)
            /\ i' = i + 1
            /\ pc' = pc
    /\ UNCHANGED <<work_item_counter, stop, n, ret, run_result, addRets, execLog, pollLog,
                   iterStart, sweepStart, okLog, failedIds>>

\* move_completed_work_items returns; the loop goes back to its condition.
SweepEnd ==
    /\ pc = "sweep"
    /\ i = n
    /\ pc' = "top"
    /\ UNCHANGED <<engine, i, n, ret, run_result, history>>

\* The steps taken inside a run call.
RunStep ==
    \/ LoopTop
    \/ DispatchStep
    \/ DispatchCheck
    \/ PollStep
    \/ PollCheck
    \/ SweepStep
    \/ SweepEnd

Next ==
    \/ Add
    \/ Stop
    \/ RunCall
    \/ LoopTop
    \/ DispatchStep
    \/ DispatchCheck
    \/ PollStep
    \/ PollCheck
    \/ SweepStep
    \/ SweepEnd

Spec == Init /\ [][Next]_vars

\* The control thread keeps running while it is inside run.
FairSpec == Spec /\ WF_vars(RunStep)

TypeOK ==
    /\ work_items \in Seq([id : 0..MaxItems, status : WorkItemStatus])
    /\ completed_work_items \in Seq([id : 0..MaxItems, status : WorkItemStatus])
    /\ work_item_counter \in 0..MaxItems
    /\ stop \in BOOLEAN
    /\ pc \in {"idle", "top", "dispatch", "poll", "sweep", "panicked"}
    /\ i \in 0..MaxItems
    /\ n \in 0..MaxItems
    /\ ret \in Results
    /\ run_result \in Results \cup {None}

(***************************************************************************)
(* Sweep: move_completed_work_items                                        *)
(***************************************************************************)
IsComplete(item) == item.status = Complete
NotComplete(item) == item.status # Complete

\* A sweep has been started in this iteration and is over: it returned to
\* the loop, or it was aborted by the out-of-range panic.
SweepReturned == pc = "top" /\ sweepStart.taken
SweepAborted == pc = "panicked"
SweepOver == SweepReturned \/ SweepAborted

\* C1: whatever subset of the active items is Complete when the sweep
\* starts, the sweep ends with the active collection holding exactly the
\* other items in their order and the completed collection extended by the
\* Complete items in their active order.
C1_SweepCorrect ==
    SweepOver =>
        /\ SweepReturned
        /\ work_items = SelectSeq(sweepStart.active, NotComplete)
        /\ completed_work_items =
               sweepStart.completed \o SelectSeq(sweepStart.active, IsComplete)

\* C2: once the sweep of an iteration is over, no item of the active
\* collection is Complete, whatever subset became Complete.
C2_NoCompleteAfterSweep ==
    SweepOver => \A k \in 1..Len(work_items) : NotComplete(work_items[k])

\* The part of C1 and C2 the code does deliver: a sweep that returns leaves
\* the collections as C1 states them.
SweepReturnedCorrect ==
    SweepReturned =>
        /\ work_items = SelectSeq(sweepStart.active, NotComplete)
        /\ completed_work_items =
               sweepStart.completed \o SelectSeq(sweepStart.active, IsComplete)

\* A sweep returns only when no item, or only the last item, was Complete.
SweepReturnsOnlyForLast ==
    SweepReturned =>
        \A k \in 1..Len(sweepStart.active) :
            IsComplete(sweepStart.active[k]) => k = Len(sweepStart.active)

(***************************************************************************)
(* Eventual archiving                                                      *)
(***************************************************************************)
Ids == 0..(MaxItems - 1)

Added(id) == id < work_item_counter

Running == pc \in {"top", "dispatch", "poll", "sweep"}

Archived(id) ==
    \E k \in 1..Len(completed_work_items) :
        /\ completed_work_items[k].id = id
        /\ completed_work_items[k].status = Complete

\* No execute call of the current iteration has failed.
AllExecOk == \A k \in 1..Len(execLog) : IsOk(execLog[k][2])

\* No status call on the item in the current iteration reported anything
\* but Complete.
NotReportedIncomplete(id) ==
    \A k \in 1..Len(pollLog) : pollLog[k][1] = id => pollLog[k][2] = "Complete"

\* C3: when stop stays false, no execute fails and from some point on every
\* item's status() reports Complete, every item that has been added when
\* run is under way is eventually in the completed collection, Complete.
C3_EventualArchiving ==
    ( /\ [](~stop)
      /\ []AllExecOk
      /\ \A j \in Ids : <>[]NotReportedIncomplete(j) )
    => \A id \in Ids : [](Added(id) /\ Running => <>Archived(id))

(***************************************************************************)
(* Dispatch pass: failures                                                 *)
(***************************************************************************)
\* The execute call on the item that stood at position p when the
\* iteration began has failed in this iteration.
FailedAt(p) ==
    \E k \in 1..Len(execLog) :
        /\ execLog[k][1] = iterStart.active[p].id
        /\ ~IsOk(execLog[k][2])

\* execute has been called in this iteration on the item that stood at p.
AttemptedAt(p) ==
    \E k \in 1..Len(execLog) : execLog[k][1] = iterStart.active[p].id

\* run has returned an error.
RunFailed == pc = "idle" /\ run_result \notin {None, Ok}

C4_State ==
    \A p \in 1..Len(iterStart.active) :
        FailedAt(p) =>
            /\ (pc = "dispatch" /\ ~IsOk(ret)) \/ RunFailed
            /\ \A q \in 1..Len(iterStart.active) :
                   /\ work_items[q].id = iterStart.active[q].id
                   /\ (q < p /\ iterStart.active[q].status = NotStarted)
                          => work_items[q].status = InProgress
                   /\ (q >= p /\ iterStart.active[q].status = NotStarted)
                          => work_items[q].status = NotStarted
                   /\ q > p => ~AttemptedAt(q)

\* C4: when the execute of the item at position p is the first to fail in
\* a dispatch pass, the pass stops there and run returns an error in that
\* iteration; the items before p that were NotStarted are InProgress, the
\* item at p and the NotStarted items after it are still NotStarted, and
\* execute was not called on any item after p.
C4_FailFast ==
    /\ []C4_State
    /\ [][(pc = "dispatch" /\ ~IsOk(ret)) => (RunFailed' /\ UNCHANGED work_items)]_vars

\* A run has failed at the second of three items that had not started.
C4_Witness ==
    /\ RunFailed
    /\ Len(iterStart.active) = 3
    /\ \A q \in 1..3 : iterStart.active[q].status = NotStarted
    /\ FailedAt(2)
    /\ work_items[1].status = InProgress
    /\ work_items[3].status = NotStarted

\* C5: when an execute call fails with error e in the dispatch pass, run
\* returns Err(e), the very value execute returned.
C5_ErrorPreserved ==
    RunFailed =>
        \A k \in 1..Len(execLog) : ~IsOk(execLog[k][2]) => run_result = execLog[k][2]

\* The state of the two-item scenario: the iteration began with two items
\* that had not started and the execute of the first one failed.
FirstOfTwoFailed ==
    /\ Len(iterStart.active) = 2
    /\ \A q \in 1..2 : iterStart.active[q].status = NotStarted
    /\ FailedAt(1)

\* C6: whatever error a failing execute returned, the pass result and the
\* value run returns are Err(Unknown); when the first of two items fails,
\* the second is still NotStarted.
C6_ErrorIsUnknown ==
    (\E k \in 1..Len(execLog) : ~IsOk(execLog[k][2])) =>
        /\ ret = Err("Unknown")
        /\ pc = "idle" => run_result = Err("Unknown")
        /\ FirstOfTwoFailed => work_items[2].status = NotStarted

\* The first of two items failed with Unrecoverable and run has returned.
C6_Witness ==
    /\ RunFailed
    /\ FirstOfTwoFailed
    /\ execLog = << <<0, Err("Unrecoverable")>> >>
    /\ run_result = Err("Unknown")
    /\ Len(work_items) = 2

(***************************************************************************)
(* Lifecycle of an item                                                    *)
(***************************************************************************)
AllItems == work_items \o completed_work_items

\* The status of the item with this id, in whichever collection it is.
StatusOf(id) ==
    IF \E k \in 1..Len(AllItems) : AllItems[k].id = id
    THEN AllItems[CHOOSE k \in 1..Len(AllItems) : AllItems[k].id = id].status
    ELSE None

\* C7: in every step the status of an item stays as it is, or goes from
\* NotStarted to InProgress in a step in which its execute returned Ok, or
\* goes from InProgress to Complete.
C7_LifecycleMonotone ==
    [][\A id \in Ids :
          (Added(id) /\ StatusOf(id)' # StatusOf(id)) =>
              \/ /\ StatusOf(id) = NotStarted
                 /\ StatusOf(id)' = InProgress
                 /\ execLog' = Append(execLog, <<id, Ok>>)
              \/ /\ StatusOf(id) = InProgress
                 /\ StatusOf(id)' = Complete]_vars

\* One item has gone all the way and is archived while another one is
\* still in progress after reporting that it is not complete.
C7_Witness ==
    /\ Archived(1)
    /\ StatusOf(0) = InProgress
    /\ \E k \in 1..Len(pollLog) : pollLog[k] = <<0, "NotStarted">>

(***************************************************************************)
(* Stop flag                                                               *)
(***************************************************************************)
\* C8: when the flag is set at the top of the loop, also in the first
\* check of a run called after stop, run returns Ok(()) at once and leaves
\* the items as they are, complete or not.
C8_IdleTermination ==
    [][(pc = "top" /\ stop) =>
          (pc' = "idle" /\ run_result' = Ok /\ UNCHANGED <<work_items, completed_work_items>>)]_vars

\* run has returned Ok(()) with items in the active collection that have
\* not started and items that are in progress.
C8_Witness ==
    /\ pc = "idle"
    /\ run_result = Ok
    /\ stop
    /\ \E k \in 1..Len(work_items) : work_items[k].status = NotStarted
    /\ \E k \in 1..Len(work_items) : work_items[k].status = InProgress

(***************************************************************************)
(* Round trip of one item                                                  *)
(***************************************************************************)
\* The iteration began with the one item that was ever added, not started;
\* its execute returned Ok and its status() reported Complete.
OneItemCompleted ==
    /\ work_item_counter = 1
    /\ iterStart.taken
    /\ iterStart.active = <<WorkItem(0)>>
    /\ iterStart.completed = <<>>
    /\ execLog = << <<0, Ok>> >>
    /\ pollLog = << <<0, "Complete">> >>

\* C9: after one full iteration with a single item whose execute returns
\* Ok and whose status() then reports Complete, the active collection is
\* empty and the completed collection holds that item, Complete.
C9_RoundTrip ==
    (OneItemCompleted /\ SweepOver) =>
        /\ work_items = <<>>
        /\ completed_work_items = <<[id |-> 0, status |-> Complete]>>

C9_Witness ==
    /\ OneItemCompleted
    /\ SweepReturned
    /\ work_items = <<>>
    /\ Len(completed_work_items) = 1

(***************************************************************************)
(* Ids                                                                     *)
(***************************************************************************)
\* C10: the n-th add call, counted from 0, returned n, and the counter is
\* the number of add calls made.
C10_IdAssignment ==
    /\ work_item_counter = Len(addRets)
    /\ \A k \in 1..Len(addRets) : addRets[k] = k - 1

\* Three add calls, the last one made after a run that failed.
C10_Witness ==
    /\ Len(addRets) = 3
    /\ RunFailed
    /\ iterStart.taken
    /\ Len(iterStart.active) = 2
    /\ stop

(***************************************************************************)
(* Conservation of items                                                   *)
(***************************************************************************)
\* The number of items with this id in both collections together.
Occurrences(id) == Cardinality({k \in 1..Len(AllItems) : AllItems[k].id = id})

\* C11: every id handed out so far is the id of exactly one item of the
\* two collections together, and the collections hold no other item.
C11_Conservation ==
    /\ \A id \in 0..(work_item_counter - 1) : Occurrences(id) = 1
    /\ Len(AllItems) = work_item_counter

\* All items have been added, and a sweep has moved some of them.
C11_Witness ==
    /\ work_item_counter = 3
    /\ Len(work_items) = 2
    /\ Len(completed_work_items) = 1

(***************************************************************************)
(* How run ends                                                            *)
(***************************************************************************)
ExecFailed == \E k \in 1..Len(execLog) : ~IsOk(execLog[k][2])

\* C12: run ends abnormally only in an iteration whose dispatch pass had a
\* failed execute; the poll pass leaves the pass result Ok and is never
\* followed by an abnormal end of run.
C12_OnlyDispatchFatal ==
    /\ (RunFailed \/ pc = "panicked") => (ExecFailed /\ pollLog = <<>>)
    /\ pc \in {"poll", "sweep"} => IsOk(ret)

\* The part of C12 about the value run returns: an Err is returned only
\* after a failed execute, and never after a status call.
ErrOnlyFromDispatch ==
    /\ RunFailed => (ExecFailed /\ pollLog = <<>>)
    /\ pc \in {"poll", "sweep"} => IsOk(ret)

(***************************************************************************)
(* No rollback, no progress after a failed dispatch                        *)
(***************************************************************************)
\* The item at position q is as it was when the iteration began, or it has
\* gone from NotStarted to InProgress with an execute that returned Ok.
KeptOrStarted(q) ==
    /\ work_items[q].id = iterStart.active[q].id
    /\ \/ work_items[q].status = iterStart.active[q].status
       \/ /\ iterStart.active[q].status = NotStarted
          /\ work_items[q].status = InProgress
          /\ \E k \in 1..Len(execLog) : execLog[k] = <<work_items[q].id, Ok>>

FrozenAtFailure ==
    /\ pollLog = <<>>
    /\ ~sweepStart.taken
    /\ sweepLog = <<>>
    /\ completed_work_items = iterStart.completed
    /\ Len(work_items) = Len(iterStart.active)
    /\ \A q \in 1..Len(work_items) : KeptOrStarted(q)

\* C13: in the step in which run returns Err, no status call and no sweep
\* has been made in that iteration, the completed collection and the
\* members and order of the active collection are those of the start of
\* the iteration, and the only changes of status are NotStarted to
\* InProgress for items whose execute returned Ok.
C13_NoRollbackNoProgress ==
    [][(pc = "dispatch" /\ pc' = "idle") => (RunFailed' /\ FrozenAtFailure')]_vars

\* run has just failed at the third item after starting the first two.
C13_Witness ==
    /\ RunFailed
    /\ FrozenAtFailure
    /\ Len(work_items) = 3
    /\ work_items[1].status = InProgress
    /\ work_items[2].status = InProgress
    /\ work_items[3].status = NotStarted
    /\ Len(execLog) = 3

(***************************************************************************)
(* Return of Ok(())                                                        *)
(***************************************************************************)
\* C14: a step in which run returns Ok(()) starts at the top of the loop
\* with the flag set; run does not return Ok from inside an iteration, and
\* not at the top of the loop while the flag is false, whatever the
\* collections hold.
C14_OkOnlyWhenStopped ==
    [][(pc # "idle" /\ pc' = "idle" /\ run_result' = Ok) => (pc = "top" /\ stop)]_vars

\* run has returned Ok(()) with no item in the active collection.
C14_Witness ==
    /\ pc = "idle"
    /\ run_result = Ok
    /\ stop
    /\ work_items = <<>>

(***************************************************************************)
(* The Error status                                                        *)
(***************************************************************************)
\* C15: no item of either collection has a status Error(_).
C15_NoErrorStatus ==
    \A k \in 1..Len(AllItems) : AllItems[k].status \in {NotStarted, InProgress, Complete}

\* run has failed at an item, and that item is still NotStarted.
C15_Witness ==
    /\ RunFailed
    /\ ExecFailed
    /\ \E k \in 1..Len(work_items) :
           /\ work_items[k].id = execLog[Len(execLog)][1]
           /\ work_items[k].status = NotStarted

(***************************************************************************)
(* Index safety of the sweep                                               *)
(***************************************************************************)
IdsOf(items) == [k \in 1..Len(items) |-> items[k].id]

\* C16: the sweep never indexes at or beyond the current length of the
\* active collection, and when it is over it has examined each item that
\* was active at its start exactly once, in order.
C16_SweepIndexSafe ==
    /\ ~SweepAborted
    /\ SweepReturned => sweepLog = IdsOf(sweepStart.active)

\* What the code does deliver: a sweep that returns has examined every item.
SweepReturnedExaminedAll ==
    SweepReturned => sweepLog = IdsOf(sweepStart.active)

(***************************************************************************)
(* Calls of execute                                                        *)
(***************************************************************************)
\* This step calls execute on the item with this id.
ExecutesStep(id) ==
    /\ Len(execLog') = Len(execLog) + 1
    /\ execLog'[Len(execLog')][1] = id

\* C17: execute is called only on an item that is NotStarted and whose
\* execute has not returned Ok before, in this run or an earlier one; so
\* no id has two execute calls that returned Ok.
C17_ExecuteOnce ==
    /\ [][\A id \in Ids :
             ExecutesStep(id) =>
                 /\ StatusOf(id) = NotStarted
                 /\ \A k \in 1..Len(okLog) : okLog[k] # id]_vars
    /\ [](\A k, l \in 1..Len(okLog) : okLog[k] = okLog[l] => k = l)

\* An item whose execute failed in an earlier run has been executed again,
\* with Ok, next to an item that was in progress and was left alone.
C17_Witness ==
    /\ Len(work_items) = 2
    /\ work_items[1].status = InProgress
    /\ work_items[2].status = InProgress
    /\ 1 \in failedIds
    /\ okLog = <<0, 1>>
    /\ execLog = << <<1, Ok>> >>

(***************************************************************************)
(* Order of the collections                                                *)
(***************************************************************************)
StrictlyIncreasing(seq) == \A k, l \in 1..Len(seq) : k < l => seq[k] < seq[l]

\* C18: the ids of the active collection increase strictly with the
\* position, and the execute calls of one dispatch pass are made in the
\* order of the ids.
C18_SubmissionOrder ==
    /\ StrictlyIncreasing(IdsOf(work_items))
    /\ StrictlyIncreasing([k \in 1..Len(execLog) |-> execLog[k][1]])

\* The sweep has taken the middle one of three items out.
C18_Witness ==
    /\ IdsOf(work_items) = <<0, 2>>
    /\ IdsOf(completed_work_items) = <<1>>

IsPrefix(a, b) == Len(a) <= Len(b) /\ SubSeq(b, 1, Len(a)) = a

\* C19: in every step the completed collection keeps what it held, in the
\* same order, as a prefix of its new value, and every item in it is
\* Complete.
C19_CompletedAppendOnly ==
    /\ [][IsPrefix(completed_work_items, completed_work_items')]_vars
    /\ [](\A k \in 1..Len(completed_work_items) : IsComplete(completed_work_items[k]))

\* Two items were archived by two sweeps, the later-added one first.
C19_Witness ==
    /\ IdsOf(completed_work_items) = <<1, 0>>
    /\ SweepReturned

(***************************************************************************)
(* run after stop                                                          *)
(***************************************************************************)
\* C20: the flag, once set, stays set; while it is set the control thread
\* is outside run or at the top of the loop, never in a pass; and the step
\* from the top of the loop returns Ok(()) and leaves both collections,
\* every status, the counter and the call histories as they are.
C20_RunAfterStopIsNoOp ==
    /\ [][stop => stop']_vars
    /\ [](stop => pc \in {"idle", "top"})
    /\ [][(stop /\ pc = "top") =>
             /\ pc' = "idle"
             /\ run_result' = Ok
             /\ UNCHANGED <<engine, execLog, pollLog, sweepLog, okLog, failedIds>>]_vars
    /\ [][(stop /\ pc = "idle" /\ pc' = "top") =>
             UNCHANGED <<engine, okLog, failedIds>>]_vars

\* run has been called with the flag set, on an engine with an item in
\* progress and one that has not started.
C20_Witness ==
    /\ stop
    /\ pc = "top"
    /\ Len(work_items) = 2
    /\ work_items[1].status = InProgress
    /\ work_items[2].status = NotStarted

====
